---- MODULE Spec2Model ----
(***************************************************************************)
(* A model of app/main.py: the DNS header and question codecs, the reply   *)
(* builder and the serving loop.                                           *)
(*                                                                         *)
(* bytes objects are sequences of 0..255, indexed from 1 (Python's b[i] is *)
(* b[i+1] here).  A str holding a domain name is the sequence of its       *)
(* character codes; decode("ascii") / encode("ascii") are the identity on  *)
(* codes below 128 and raise otherwise.  A Python exception is a result    *)
(* record with ok = FALSE and the exception's name in err.                 *)
(***************************************************************************)
EXTENDS Integers, Sequences, FiniteSets, TLC

VARIABLES
    \* ---- the serving loop (main) ----
    resolver,   \* args.resolver: "None" or the --resolver string
    pc,         \* position of main: "idle" (not this run), "recv", "parse",
                \* "build", "send", "sent", "stopped"
    data,       \* the datagram returned by udp_socket.recvfrom
    query,      \* the DNSQuery returned by DNSQuery.parse
    response,   \* the bytes returned by DNSResponse.build_from
    sent,       \* the datagram handed to udp_socket.sendto in this iteration
    upstream,   \* the datagrams handed to dns_resolver.sendto, in order
    cause,      \* why the loop left: "none", "socket", "decode", "build"
    error,      \* the exception's name, "" when none
    \* ---- codec runs (header and question round trips) ----
    hdr,        \* a DNSHeader
    wire,       \* bytes
    back,       \* the result of unpacking wire
    parsed,     \* the result of DNSQuery.parse(wire)
    again,      \* the bytes of packing the unpacked question again
    start,      \* the offset in wire of the question that is unpacked
    stage       \* position of the codec run

vars == <<resolver, pc, data, query, response, sent, upstream, cause, error,
          hdr, wire, back, parsed, again, start, stage>>

None == "None"

\* a variable that holds no object yet
Nil == [nil |-> TRUE]

(***************************************************************************)
(* Python and struct helpers                                               *)
(***************************************************************************)
Min(a, b) == IF a < b THEN a ELSE b

\* s[a:b] and s[a:] for 0 <= a: a slice never raises, it is cut at the end.
Slice(s, a, b) == SubSeq(s, a + 1, Min(b, Len(s)))
Drop(s, a) == SubSeq(s, a + 1, Len(s))

Pow2(n) == 2 ^ n

\* a << n, a >> n on non-negative ints
Shl(a, n) == a * Pow2(n)
Shr(a, n) == a \div Pow2(n)

\* a | b and a & b on non-negative ints, bit by bit
RECURSIVE BitOr(_, _)
BitOr(a, b) ==
    IF a = 0 THEN b
    ELSE IF b = 0 THEN a
    ELSE (IF a % 2 = 1 \/ b % 2 = 1 THEN 1 ELSE 0) + 2 * BitOr(a \div 2, b \div 2)

RECURSIVE BitAnd(_, _)
BitAnd(a, b) ==
    IF a = 0 \/ b = 0 THEN 0
    ELSE (IF a % 2 = 1 /\ b % 2 = 1 THEN 1 ELSE 0) + 2 * BitAnd(a \div 2, b \div 2)

\* struct.pack of one "H" / "I" / "B" field, big-endian; the value must fit
FitsH(v) == v \in 0..65535
FitsI(v) == v >= 0 /\ FitsH(v \div 65536)
PackH(v) == <<v \div 256, v % 256>>
PackI(v) == <<(v \div 16777216) % 256, (v \div 65536) % 256, (v \div 256) % 256, v % 256>>
UnpackH(b, i) == b[i] * 256 + b[i + 1]

Fail(e) == [ok |-> FALSE, err |-> e]

(***************************************************************************)
(* DNSHeader                                                               *)
(***************************************************************************)
\* a faulty variant of HeaderFlags: z one bit too far to the left
HeaderFlags_zShifted(h) ==
    BitOr(Shl(h.qr, 15), BitOr(Shl(h.opcode, 11), BitOr(Shl(h.aa, 10),
    BitOr(Shl(h.tc, 9), BitOr(Shl(h.rd, 8), BitOr(Shl(h.ra, 7),
    BitOr(Shl(h.z, 5), h.rcode)))))))

\* main.py 24-33: the flags word
HeaderFlags(h) ==
    BitOr(Shl(h.qr, 15), BitOr(Shl(h.opcode, 11), BitOr(Shl(h.aa, 10),
    BitOr(Shl(h.tc, 9), BitOr(Shl(h.rd, 8), BitOr(Shl(h.ra, 7),
    BitOr(Shl(h.z, 4), h.rcode)))))))

\* struct.pack(">HHHHHH", ...) raises struct.error unless every word fits
DNSHeader_packable(h) ==
    /\ FitsH(h.id_) /\ FitsH(HeaderFlags(h))
    /\ FitsH(h.qdcount) /\ FitsH(h.ancount) /\ FitsH(h.nscount) /\ FitsH(h.arcount)

DNSHeader_pack(h) ==
    PackH(h.id_) \o PackH(HeaderFlags(h)) \o PackH(h.qdcount)
        \o PackH(h.ancount) \o PackH(h.nscount) \o PackH(h.arcount)

\* struct.unpack(">HHHHHH", data) raises struct.error unless len(data) = 12
DNSHeader_unpack(d) ==
    IF Len(d) # 12 THEN Fail("struct.error")
    ELSE LET flags == UnpackH(d, 3) IN
         [ok |-> TRUE,
          header |-> [id_ |-> UnpackH(d, 1),
                      qr |-> Shr(flags, 15),
                      opcode |-> BitAnd(Shr(flags, 11), 15),
                      aa |-> BitAnd(Shr(flags, 10), 1),
                      tc |-> BitAnd(Shr(flags, 9), 1),
                      rd |-> BitAnd(Shr(flags, 8), 1),
                      ra |-> BitAnd(Shr(flags, 7), 1),
                      z |-> BitAnd(Shr(flags, 4), 7),
                      rcode |-> BitAnd(flags, 15),
                      qdcount |-> UnpackH(d, 5),
                      ancount |-> UnpackH(d, 7),
                      nscount |-> UnpackH(d, 9),
                      arcount |-> UnpackH(d, 11)]]

(***************************************************************************)
(* Names: str.split("."), ".".join(...), and the label encoding shared by  *)
(* DNSQuestion.pack and DNSAnswer.pack                                     *)
(***************************************************************************)
Dot == 46

HasDot(s) == \E i \in 1..Len(s) : s[i] = Dot
FirstDot(s) == CHOOSE i \in 1..Len(s) : s[i] = Dot /\ \A j \in 1..(i - 1) : s[j] # Dot

\* s.split("."): never empty, "" splits into [""]
RECURSIVE Split(_)
Split(s) ==
    IF ~HasDot(s) THEN <<s>>
    ELSE <<SubSeq(s, 1, FirstDot(s) - 1)>> \o Split(SubSeq(s, FirstDot(s) + 1, Len(s)))

\* ".".join(parts)
RECURSIVE Join(_)
Join(parts) ==
    IF Len(parts) = 0 THEN <<>>
    ELSE IF Len(parts) = 1 THEN parts[1]
    ELSE parts[1] \o <<Dot>> \o Join(Tail(parts))

IsAscii(s) == \A i \in 1..Len(s) : s[i] < 128

RECURSIVE PackLabels(_)
PackLabels(parts) ==
    IF Len(parts) = 0 THEN <<>>
    ELSE <<Len(parts[1])>> \o parts[1] \o PackLabels(Tail(parts))

\* len(p).to_bytes(1, "big") raises OverflowError above 255, p.encode("ascii")
\* raises UnicodeEncodeError on a code above 127
NamePackable(name) ==
    \A i \in 1..Len(Split(name)) : Len(Split(name)[i]) <= 255 /\ IsAscii(Split(name)[i])

\* b"".join(len(p) + p for p in name.split(".")) + b"\x00"
PackName(name) == PackLabels(Split(name)) \o <<0>>

(***************************************************************************)
(* DNSQuestion                                                             *)
(***************************************************************************)
DNSQuestion_packable(q) == NamePackable(q.name) /\ FitsH(q.type_) /\ FitsH(q.class_)

DNSQuestion_pack(q) == PackName(q.name) \o PackH(q.type_) \o PackH(q.class_)

\* Frames of DNSQuestion.unpack the interpreter allows on the stack before it
\* raises RecursionError.  CPython's limit (1000) exceeds the number of
\* pointers a 512-byte datagram can chain without a cycle; so does this one
\* for the datagrams of this model.
RecursionLimit == 8

IsPointer(length) == BitAnd(length, 192) = 192

\* The while loop of DNSQuestion.unpack at `d` with `parts` collected so far,
\* in the frame number `depth`.
RECURSIVE UnpackLoop(_, _, _, _)
UnpackLoop(d, parts, payload, depth) ==
    IF Len(d) = 0 THEN Fail("IndexError")
    ELSE IF d[1] = 0 THEN
        LET tail == Drop(d, 1) IN
        IF Len(Slice(tail, 0, 4)) # 4 THEN Fail("struct.error")
        ELSE [ok |-> TRUE,
              question |-> [name |-> Join(parts), type_ |-> UnpackH(tail, 1),
                            class_ |-> UnpackH(tail, 3)],
              rest |-> Drop(tail, 4)]
    ELSE IF IsPointer(d[1]) THEN
        IF Len(Slice(d, 0, 2)) # 2 THEN Fail("struct.error")
        ELSE IF depth >= RecursionLimit THEN Fail("RecursionError")
        ELSE
            LET pointer == BitAnd(UnpackH(d, 1), 16383)
                tail == Drop(d, 2)
                inner == UnpackLoop(Drop(payload, pointer), <<>>, payload, depth + 1)
            IN  IF ~inner.ok THEN inner
                ELSE IF Len(Slice(tail, 0, 4)) # 4 THEN Fail("struct.error")
                ELSE [ok |-> TRUE,
                      question |-> [name |-> Join(Append(parts, inner.question.name)),
                                    type_ |-> UnpackH(tail, 1),
                                    class_ |-> UnpackH(tail, 3)],
                      rest |-> Drop(tail, 4)]
    ELSE
        LET label == Slice(d, 1, d[1] + 1) IN
        IF ~IsAscii(label) THEN Fail("UnicodeDecodeError")
        ELSE UnpackLoop(Drop(d, d[1] + 1), Append(parts, label), payload, depth)

DNSQuestion_unpack(d, payload) == UnpackLoop(d, <<>>, payload, 1)

(***************************************************************************)
(* DNSAnswer                                                               *)
(***************************************************************************)
IsDigits(s) == Len(s) > 0 /\ \A i \in 1..Len(s) : s[i] \in 48..57

\* int(part) for a string of decimal digits
RECURSIVE ParseInt(_)
ParseInt(s) == IF Len(s) = 0 THEN 0 ELSE 10 * ParseInt(SubSeq(s, 1, Len(s) - 1)) + (s[Len(s)] - 48)

\* struct.pack("!BBBB", *[int(part) for part in rdata.split(".")])
RdataPackable(rdata) ==
    /\ Len(Split(rdata)) = 4
    /\ \A i \in 1..4 : IsDigits(Split(rdata)[i]) /\ ParseInt(Split(rdata)[i]) <= 255

PackRdata(rdata) == [i \in 1..Len(Split(rdata)) |-> ParseInt(Split(rdata)[i])]

DNSAnswer_packable(a) ==
    /\ NamePackable(a.name) /\ RdataPackable(a.rdata)
    /\ FitsH(a.type_) /\ FitsH(a.class_) /\ FitsH(a.rdlength) /\ FitsI(a.ttl)

DNSAnswer_pack(a) ==
    PackName(a.name) \o PackH(a.type_) \o PackH(a.class_) \o PackI(a.ttl)
        \o PackH(a.rdlength) \o PackRdata(a.rdata)

(***************************************************************************)
(* DNSQuery                                                                *)
(***************************************************************************)
\* the for loop of DNSQuery.parse with n questions still to read
RECURSIVE ParseQuestions(_, _, _, _)
ParseQuestions(n, unprocessed, payload, questions) ==
    IF n = 0 THEN [ok |-> TRUE, questions |-> questions]
    ELSE LET r == DNSQuestion_unpack(unprocessed, payload) IN
         IF ~r.ok THEN r
         ELSE ParseQuestions(n - 1, r.rest, payload, Append(questions, r.question))

DNSQuery_parse(payload) ==
    LET h == DNSHeader_unpack(Slice(payload, 0, 12)) IN
    IF ~h.ok THEN h
    ELSE LET qs == ParseQuestions(h.header.qdcount, Drop(payload, 12), payload, <<>>) IN
         IF ~qs.ok THEN qs
         ELSE [ok |-> TRUE, query |-> [header |-> h.header, questions |-> qs.questions]]

(***************************************************************************)
(* DNSResponse.build_from                                                  *)
(***************************************************************************)
\* a faulty variant of ReplyHeader: rcode 0 whatever the opcode
ReplyHeader_rcodeZero(q) ==
    [id_ |-> q.header.id_, qr |-> 1, opcode |-> q.header.opcode, aa |-> 0,
     tc |-> 0, rd |-> q.header.rd, ra |-> 0, z |-> 0, rcode |-> 0,
     qdcount |-> q.header.qdcount, ancount |-> q.header.qdcount,
     nscount |-> 0, arcount |-> 0]

\* main.py 160-173: the reply's header
ReplyHeader(q) ==
    [id_ |-> q.header.id_, qr |-> 1, opcode |-> q.header.opcode, aa |-> 0,
     tc |-> 0, rd |-> q.header.rd, ra |-> 0, z |-> 0,
     rcode |-> IF q.header.opcode = 0 THEN 0 ELSE 4,
     qdcount |-> q.header.qdcount, ancount |-> q.header.qdcount,
     nscount |-> 0, arcount |-> 0]

\* main.py 181-188: the answer made up for one question; rdata is "8.8.8.8"
LocalAnswer(question) ==
    [name |-> question.name, type_ |-> 1, class_ |-> 1, ttl |-> 60,
     rdlength |-> 4, rdata |-> <<56, 46, 56, 46, 56, 46, 56>>]

RECURSIVE Concat(_)
Concat(ss) == IF Len(ss) = 0 THEN <<>> ELSE ss[1] \o Concat(Tail(ss))

\* The value build_from returns, or the exception that leaves it.  With
\* resolver None the else branch is taken and its first statement,
\* resolver.split(":"), raises AttributeError: lines 191-201, the only ones
\* that talk to a resolver, are never run.
DNSResponse_build_from(q, r) ==
    IF ~DNSHeader_packable(ReplyHeader(q)) THEN Fail("struct.error")
    ELSE IF \E i \in 1..Len(q.questions) : ~DNSQuestion_packable(q.questions[i])
        THEN Fail("OverflowError")
    ELSE IF r # None THEN
        IF \E i \in 1..Len(q.questions) : ~DNSAnswer_packable(LocalAnswer(q.questions[i]))
        THEN Fail("struct.error")
        ELSE [ok |-> TRUE,
              response |->
                  DNSHeader_pack(ReplyHeader(q))
                  \o Concat([i \in 1..Len(q.questions) |-> DNSQuestion_pack(q.questions[i])])
                  \o Concat([i \in 1..Len(q.questions) |->
                                DNSAnswer_pack(LocalAnswer(q.questions[i]))])]
    ELSE Fail("AttributeError")

(***************************************************************************)
(* Header round trip: pack a header, unpack the bytes.                     *)
(***************************************************************************)
Bits == {0, 1}

\* Headers whose fields lie within their bit widths.
HeaderInputs ==
    [id_ : {0, 17266, 65535}, qr : Bits, opcode : {0, 1, 10, 15}, aa : Bits,
     tc : Bits, rd : Bits, ra : Bits, z : {0, 5, 7}, rcode : {0, 4, 15},
     qdcount : {0, 1, 65535}, ancount : {0, 256}, nscount : {0, 1},
     arcount : {0, 65535}]

IdleLoop ==
    /\ resolver = None /\ pc = "idle" /\ data = <<>> /\ query = Nil
    /\ response = <<>> /\ sent = <<>> /\ upstream = <<>>
    /\ cause = "none" /\ error = ""

loopVars == <<resolver, pc, data, query, response, sent, upstream, cause, error>>

HeaderInit ==
    /\ IdleLoop
    /\ hdr \in HeaderInputs
    /\ wire = <<>>
    /\ back = Nil
    /\ parsed = Nil
    /\ again = <<>>
    /\ start = 0
    /\ stage = "new"

HeaderPack ==
    /\ stage = "new"
    /\ DNSHeader_packable(hdr)
    /\ wire' = DNSHeader_pack(hdr)
    /\ stage' = "packed"
    /\ UNCHANGED <<hdr, back, parsed, again, start, loopVars>>

HeaderUnpack ==
    /\ stage = "packed"
    /\ back' = DNSHeader_unpack(wire)
    /\ stage' = "unpacked"
    /\ UNCHANGED <<hdr, wire, parsed, again, start, loopVars>>

HeaderNext == HeaderPack \/ HeaderUnpack

HeaderSpec == HeaderInit /\ [][HeaderNext]_vars

(***************************************************************************)
(* Question decoding: a message is taken from the wire, one of its          *)
(* questions is unpacked and packed again, and the message is parsed.      *)
(***************************************************************************)
MaxTokens == 4

\* Pieces a message body is made of: labels, a label holding ".", a label
\* holding a byte above 127, the end of a name with type A class IN, a bare
\* type and class, and pointers to offsets 12, 14, 17 and 99.
Tokens ==
    {<<1, 97>>, <<2, 98, 99>>, <<1, 46>>, <<1, 233>>, <<0, 0, 1, 0, 1>>,
     <<0, 2, 0, 3>>, <<192, 12>>, <<192, 14>>, <<192, 17>>, <<192, 99>>}

Bodies(n) == {Concat(ts) : ts \in UNION {[1..k -> Tokens] : k \in 0..n}}

\* a query header, written byte by byte
WireHeader(id, opcode, rd, junk, qd) ==
    <<id \div 256, id % 256, 134 * junk + 8 * opcode + rd, 255 * junk,
      qd \div 256, qd % 256, 0, 0, 0, 0, 0, 0>>

\* Where DNSQuery.parse calls DNSQuestion.unpack: at offset 12, and where the
\* first question left off.
QuestionStarts(w) ==
    {12} \cup (IF DNSQuestion_unpack(Drop(w, 12), w).ok
               THEN {Len(w) - Len(DNSQuestion_unpack(Drop(w, 12), w).rest)}
               ELSE {})

QuestionInit ==
    /\ IdleLoop
    /\ hdr = Nil
    /\ \E qd \in 1..2, b \in Bodies(MaxTokens) : wire = WireHeader(17266, 0, 1, 0, qd) \o b
    /\ back = Nil
    /\ parsed = Nil
    /\ again = <<>>
    /\ start \in QuestionStarts(wire)
    /\ stage = "wire"

QuestionUnpack ==
    /\ stage = "wire"
    /\ back' = DNSQuestion_unpack(Drop(wire, start), wire)
    /\ stage' = "decoded"
    /\ UNCHANGED <<hdr, wire, parsed, again, start, loopVars>>

QuestionPack ==
    /\ stage = "decoded"
    /\ back.ok
    /\ DNSQuestion_packable(back.question)
    /\ again' = DNSQuestion_pack(back.question)
    /\ stage' = "encoded"
    /\ UNCHANGED <<hdr, wire, back, parsed, start, loopVars>>

QueryParse ==
    /\ stage \in {"decoded", "encoded"}
    /\ parsed = Nil
    /\ parsed' = DNSQuery_parse(wire)
    /\ UNCHANGED <<hdr, wire, back, again, start, stage, loopVars>>

QuestionNext == QuestionUnpack \/ QuestionPack \/ QueryParse

QuestionSpec == QuestionInit /\ [][QuestionNext]_vars

(***************************************************************************)
(* main: the serving loop                                                  *)
(***************************************************************************)
MaxQuestions == 2

\* The questions a datagram is made of, as they come on the wire: "bc.a" A
\* IN, the root name, a pointer to offset 12, a label with nothing after it,
\* and a label holding a byte above 127.
QuestionForms ==
    {<<2, 98, 99, 1, 97, 0, 0, 1, 0, 1>>, <<0, 0, 1, 0, 1>>,
     <<192, 12, 0, 2, 0, 3>>, <<1, 97>>, <<1, 233, 0, 0, 1, 0, 1>>}

QuestionSections == {Concat(qs) : qs \in UNION {[1..k -> QuestionForms] : k \in 0..MaxQuestions}}

\* id, rd and whether the bits a query should leave clear are set
QueryKinds == {<<17266, 0, 0>>, <<65535, 1, 1>>}

Datagrams ==
    {WireHeader(k[1], opcode, k[2], k[3], qd) \o b :
        k \in QueryKinds, opcode \in 0..15, qd \in 0..MaxQuestions, b \in QuestionSections}
    \cup {<<67, 114, 1>>}

Resolvers == {None, "127.0.0.1:5353"}

codecVars == <<hdr, wire, back, parsed, again, start, stage>>

Init ==
    /\ resolver \in Resolvers
    /\ pc = "recv"
    /\ data = <<>>
    /\ query = Nil
    /\ response = <<>>
    /\ sent = <<>>
    /\ upstream = <<>>
    /\ cause = "none"
    /\ error = ""
    /\ hdr = Nil /\ wire = <<>> /\ back = Nil /\ parsed = Nil /\ again = <<>>
    /\ start = 0 /\ stage = "off"

\* main.py 216: recvfrom returns a datagram.
Receive(d) ==
    /\ pc = "recv"
    /\ data' = d
    /\ pc' = "parse"
    /\ UNCHANGED <<resolver, query, response, sent, upstream, cause, error, codecVars>>

\* main.py 216, 220: the socket fails; 221-223: the loop is left.
SocketError ==
    /\ pc \in {"recv", "send"}
    /\ pc' = "stopped"
    /\ cause' = "socket"
    /\ error' = "OSError"
    /\ UNCHANGED <<resolver, data, query, response, sent, upstream, codecVars>>

\* main.py 217, and 221-223 when it raises
Parse ==
    /\ pc = "parse"
    /\ LET r == DNSQuery_parse(data) IN
       IF r.ok
       THEN /\ query' = r.query
            /\ pc' = "build"
            /\ UNCHANGED <<cause, error>>
       ELSE /\ pc' = "stopped"
            /\ cause' = "decode"
            /\ error' = r.err
            /\ UNCHANGED query
    /\ UNCHANGED <<resolver, data, response, sent, upstream, codecVars>>

\* main.py 219, and 221-223 when it raises
Build ==
    /\ pc = "build"
    /\ LET r == DNSResponse_build_from(query, resolver) IN
       IF r.ok
       THEN /\ response' = r.response
            /\ pc' = "send"
            /\ UNCHANGED <<cause, error>>
       ELSE /\ pc' = "stopped"
            /\ cause' = "build"
            /\ error' = r.err
            /\ UNCHANGED response
    /\ UNCHANGED <<resolver, data, query, sent, upstream, codecVars>>

\* main.py 220
Send ==
    /\ pc = "send"
    /\ sent' = response
    /\ pc' = "sent"
    /\ UNCHANGED <<resolver, data, query, response, upstream, cause, error, codecVars>>

\* main.py 214: the next iteration.  What the iteration before left in data,
\* query and response is never read again before it is assigned, and is
\* forgotten here.
Iterate ==
    /\ pc = "sent"
    /\ pc' = "recv"
    /\ data' = <<>>
    /\ query' = Nil
    /\ response' = <<>>
    /\ sent' = <<>>
    /\ UNCHANGED <<resolver, upstream, cause, error, codecVars>>

Next ==
    \/ pc = "recv" /\ \E d \in Datagrams : Receive(d)
    \/ SocketError
    \/ Parse
    \/ Build
    \/ Send
    \/ Iterate

Spec == Init /\ [][Next]_vars

(***************************************************************************)
(* The wire format of a name, read off the message without the decoder:    *)
(* used to say what a message holds.                                       *)
(***************************************************************************)
\* The ordinary labels from offset `off` on, and what ends them: the zero
\* byte ("end", the name's bytes stop before `next`), a pointer ("pointer",
\* at offset `at`) or the end of the message ("cut").
RECURSIVE WireLabels(_, _, _)
WireLabels(p, off, labels) ==
    IF off >= Len(p) THEN [kind |-> "cut"]
    ELSE IF p[off + 1] = 0 THEN [kind |-> "end", labels |-> labels, next |-> off + 1]
    ELSE IF p[off + 1] >= 192 THEN
        IF off + 1 >= Len(p) THEN [kind |-> "cut"]
        ELSE [kind |-> "pointer", labels |-> labels, at |-> off,
              target |-> (p[off + 1] - 192) * 256 + p[off + 2]]
    ELSE IF off + 1 + p[off + 1] > Len(p) THEN [kind |-> "cut"]
    ELSE WireLabels(p, off + 1 + p[off + 1],
                    Append(labels, SubSeq(p, off + 2, off + 1 + p[off + 1])))

\* The labels of the name at offset `off`, pointers followed at most `fuel` times.
RECURSIVE WireName(_, _, _)
WireName(p, off, fuel) ==
    LET w == WireLabels(p, off, <<>>) IN
    IF w.kind = "end" THEN [ok |-> TRUE, labels |-> w.labels]
    ELSE IF w.kind = "pointer" /\ fuel > 0 THEN
        LET t == WireName(p, w.target, fuel - 1) IN
        IF t.ok THEN [ok |-> TRUE, labels |-> w.labels \o t.labels] ELSE t
    ELSE [ok |-> FALSE]

\* the name of the question at `start`
TheName == WireLabels(wire, start, <<>>)

Decoded == stage \in {"decoded", "encoded"}

\* C3: a name holding a compression pointer whose target is the pointer's own
\* position, a later position or beyond the end of the message is never
\* decoded: DNSQuestion.unpack ends with a failure.
C3_PointerNotBackwardFails ==
    (Decoded /\ TheName.kind = "pointer" /\ TheName.target >= TheName.at)
        => ~back.ok

\* Names made of ASCII labels of 1 to 63 bytes, at most 255 bytes encoded.
ValidLabels(labels) ==
    /\ Len(labels) >= 1
    /\ \A i \in 1..Len(labels) :
          Len(labels[i]) \in 1..63 /\ IsAscii(labels[i]) /\ ~HasDot(labels[i])
    /\ Len(PackLabels(labels)) + 1 <= 255

\* C5: a question whose name is made of ASCII labels of 1 to 63 bytes is
\* returned unchanged, with no input left over, by unpacking what pack made
\* of it; and packing a question unpacked from uncompressed wire bytes gives
\* back exactly the bytes unpack consumed.
C5_QuestionRoundTrip ==
    /\ (stage = "encoded" /\ ValidLabels(Split(back.question.name)))
          => DNSQuestion_unpack(again, again)
                = [ok |-> TRUE, question |-> back.question, rest |-> <<>>]
    /\ (stage = "encoded" /\ TheName.kind = "end")
          => again = SubSeq(wire, start + 1, Len(wire) - Len(back.rest))

\* C6: when a question's name is ordinary ASCII labels followed by a pointer
\* to an earlier offset at which a name decodes, and type and class follow the
\* pointer, DNSQuestion.unpack yields those labels followed by the name at the
\* target, the type and class of the 4 bytes after the pointer, and leaves as
\* remaining input what follows them.
C6_CompressionDecoding ==
    (/\ Decoded
     /\ TheName.kind = "pointer"
     /\ TheName.target < TheName.at
     /\ WireName(wire, TheName.target, Len(wire)).ok
     /\ IsAscii(Concat(TheName.labels \o WireName(wire, TheName.target, Len(wire)).labels))
     /\ TheName.at + 6 <= Len(wire))
        => /\ back.ok
           /\ back.question.name
                = Join(TheName.labels \o WireName(wire, TheName.target, Len(wire)).labels)
           /\ back.question.type_ = UnpackH(wire, TheName.at + 3)
           /\ back.question.class_ = UnpackH(wire, TheName.at + 5)
           /\ back.rest = Drop(wire, TheName.at + 6)

(***************************************************************************)
(* Claims about the serving loop and the replies it sends                  *)
(***************************************************************************)
\* build_from has been called on the decoded query and has ended
Built == pc \in {"send", "sent"} \/ (pc = "stopped" /\ cause = "build")

\* C1: a datagram that cannot be decoded, or whose reply cannot be built,
\* never stops the serving loop: the loop is left only when the socket fails.
C1_LoopSurvivesBadDatagram == pc = "stopped" => cause = "socket"

\* The answer section made up for `questions`: for each, in order, its name,
\* type A, class IN, ttl 60, rdlength 4 and four bytes of address.
RECURSIVE IsSyntheticAnswers(_, _)
IsSyntheticAnswers(bytes, questions) ==
    IF Len(questions) = 0 THEN bytes = <<>>
    ELSE LET n == WireLabels(bytes, 0, <<>>) IN
         /\ n.kind = "end"
         /\ Join(n.labels) = questions[1].name
         /\ Len(bytes) >= n.next + 14
         /\ SubSeq(bytes, n.next + 1, n.next + 10) = <<0, 1, 0, 1, 0, 0, 0, 60, 0, 4>>
         /\ IsSyntheticAnswers(Drop(bytes, n.next + 14), Tail(questions))

\* the bytes of `questions` on the wire, uncompressed, in order
RECURSIVE WireQuestions(_)
WireQuestions(questions) ==
    IF Len(questions) = 0 THEN <<>>
    ELSE PackLabels(Split(questions[1].name)) \o <<0>> \o PackH(questions[1].type_)
            \o PackH(questions[1].class_) \o WireQuestions(Tail(questions))

\* C2: with no resolver configured every decoded query is answered locally:
\* the reply holds the query's questions in order, then one synthetic A/IN
\* answer (ttl 60, 4-byte address) per question in the same order, and
\* nothing is sent upstream; something is sent upstream only when a resolver
\* is configured.
C2_LocalAnswerWithoutResolver ==
    /\ (resolver = None /\ Built)
          => /\ pc \in {"send", "sent"}
             /\ Len(response) >= 12 + Len(WireQuestions(query.questions))
             /\ SubSeq(response, 13, 12 + Len(WireQuestions(query.questions)))
                    = WireQuestions(query.questions)
             /\ IsSyntheticAnswers(
                    Drop(response, 12 + Len(WireQuestions(query.questions))),
                    query.questions)
             /\ upstream = <<>>
    /\ upstream # <<>> => resolver # None

\* C7: the header of a reply has qr = 1, the query's id, opcode and rd,
\* aa = tc = ra = z = 0, and rcode 0 for opcode 0 and 4 for any other opcode.
\* The first four bytes of the reply are the id and the flags word.
C7_ReplyHeaderPolicy ==
    pc \in {"send", "sent"} =>
        /\ Len(response) >= 12
        /\ response[1] = query.header.id_ \div 256
        /\ response[2] = query.header.id_ % 256
        /\ response[3] = 128 + 8 * query.header.opcode + query.header.rd
        /\ response[4] = (IF query.header.opcode = 0 THEN 0 ELSE 4)

C7_Witness ==
    /\ pc = "sent" /\ sent = response
    /\ query.header.opcode = 13 /\ query.header.rd = 1 /\ query.header.id_ = 65535
    /\ query.header.ra = 1 /\ query.header.z = 7 /\ query.header.rcode = 15
    /\ query.header.aa = 1 /\ Len(query.questions) = 2

\* Where `n` questions starting at offset `off` end, -1 when the bytes do not
\* hold them.
RECURSIVE SkipQuestions(_, _, _)
SkipQuestions(p, off, n) ==
    IF n = 0 THEN off
    ELSE LET w == WireLabels(p, off, <<>>) IN
         IF w.kind = "end" /\ w.next + 4 <= Len(p)
         THEN SkipQuestions(p, w.next + 4, n - 1)
         ELSE -1

\* Where `n` resource records starting at offset `off` end, -1 when the bytes
\* do not hold them.
RECURSIVE SkipRecords(_, _, _)
SkipRecords(p, off, n) ==
    IF off < 0 THEN -1
    ELSE IF n = 0 THEN off
    ELSE LET w == WireLabels(p, off, <<>>) IN
         IF w.kind = "end" /\ w.next + 10 <= Len(p)
                /\ w.next + 10 + UnpackH(p, w.next + 9) <= Len(p)
         THEN SkipRecords(p, w.next + 10 + UnpackH(p, w.next + 9), n - 1)
         ELSE -1

\* C8: in every reply handed to the socket, the bytes after the header are
\* exactly qdcount questions followed by exactly ancount answer records.
C8_CountsMatchSections ==
    pc \in {"send", "sent"} =>
        /\ Len(response) >= 12
        /\ SkipRecords(response, SkipQuestions(response, 12, UnpackH(response, 5)),
                       UnpackH(response, 7)) = Len(response)

\* C9: a query of several questions handled with a resolver configured has an
\* upstream exchange attempted for each of its questions, whatever becomes of
\* the others.
C9_EveryQuestionForwarded ==
    (resolver # None /\ Built /\ Len(query.questions) >= 2)
        => Len(upstream) = Len(query.questions)

Handling == pc \in {"parse", "build", "send", "sent"}

\* C10: whenever the handling of a received datagram ends, in a reply sent or
\* in a failure, the server goes on to receive the next datagram (unless the
\* socket itself failed).
C10_HandledThenNext ==
    [][(Handling /\ ~Handling') => (pc' = "recv" \/ cause' = "socket")]_vars

\* C4: for every header whose fields lie within their bit widths, the packed
\* form is exactly 12 bytes and unpacking it gives the header back, field
\* for field.
C4_HeaderRoundTrip ==
    /\ stage \in {"packed", "unpacked"} => Len(wire) = 12
    /\ stage = "unpacked" => (back.ok /\ back.header = hdr)

C4_Witness ==
    /\ stage = "unpacked"
    /\ hdr.z = 5 /\ hdr.opcode = 10 /\ hdr.rcode = 4 /\ hdr.id_ = 17266
    /\ hdr.qr = 1 /\ hdr.ra = 1 /\ hdr.qdcount = 65535

====
